---- MODULE Spec2Model ----
(***************************************************************************)
(* A model of the chat orchestration of ai-survey-analyzer: the /api/chat  *)
(* POST handler in its three forms (the axios handler with mock tool       *)
(* outputs, the OpenAI-SDK handler with web_search dispatch, and the       *)
(* session-gated handler with table repair) and the NextAuth signIn        *)
(* callback.                                                               *)
(*                                                                         *)
(* Text is modelled as a sequence of characters, each character a one      *)
(* character string; the four characters that are awkward in a string      *)
(* literal are named below.                                                *)
(***************************************************************************)
EXTENDS Integers, Sequences, FiniteSets, TLC

VARIABLES
  variant,          \* which form of the handler serves the request
  pc,               \* position of the handler
  req,              \* the parsed request body
  env,              \* process.env as the handler reads it
  session,          \* what getServerSession resolves to
  currentThreadId,  \* let currentThreadId / the SDK handler's threadId
  status,           \* let status / run.status
  retries,          \* let retries
  toolCalls,        \* the tool_calls of the requires_action being serviced
  outputs,          \* the tool outputs produced so far for toolCalls
  submitted,        \* the tool_outputs of a submit call made for toolCalls
  issued,           \* kinds of outbound calls made by this invocation
  cause,            \* what threw, when the catch block ran
  resp,             \* the response returned by the handler
  signIn,           \* one invocation of the signIn callback
  messagesRes,      \* the message list the handler fetched for its reply
  runRes,           \* the run as the backend last answered it to a call that
                    \* returns the run: runRes.data (axios), run (SDK)
  search,           \* one invocation of a search adapter
  xform,            \* one reply text put through a text transformation
  chatApp           \* the chat page: its React state, its effects, localStorage

vars == <<variant, pc, req, env, session, currentThreadId, status, retries,
          toolCalls, outputs, submitted, issued, cause, resp, signIn,
          messagesRes, runRes, search, xform, chatApp>>

handlerVars == <<variant, pc, req, env, session, currentThreadId, status, retries,
                 toolCalls, outputs, submitted, issued, cause, resp, messagesRes,
                 runRes>>

-----------------------------------------------------------------------------
(* Characters and text *)

\* U+3010, U+3011 and U+2020 of the citation marker, and the line feed
OPEN == "OPEN"
CLOSE == "CLOSE"
DAGGER == "DAGGER"
NL == "NL"

Digits == {"0", "1", "2", "3", "4", "5", "6", "7", "8", "9"}

\* the white space String.prototype.trim removes, as far as the model's texts hold it
WhiteSpace == {" ", NL}

Upper == <<"A", "B", "C", "D", "E", "F", "G", "H", "I", "J", "K", "L", "M",
           "N", "O", "P", "Q", "R", "S", "T", "U", "V", "W", "X", "Y", "Z">>
Lower == <<"a", "b", "c", "d", "e", "f", "g", "h", "i", "j", "k", "l", "m",
           "n", "o", "p", "q", "r", "s", "t", "u", "v", "w", "x", "y", "z">>

ToLowerChar(c) ==
  IF \E i \in DOMAIN Upper : Upper[i] = c
  THEN Lower[CHOOSE i \in DOMAIN Upper : Upper[i] = c]
  ELSE c

\* String.prototype.toLowerCase
ToLowerCase(s) == [i \in DOMAIN s |-> ToLowerChar(s[i])]

RECURSIVE TrimStart(_)
TrimStart(s) ==
  IF s # <<>> /\ Head(s) \in WhiteSpace THEN TrimStart(Tail(s)) ELSE s

RECURSIVE TrimEnd(_)
TrimEnd(s) ==
  IF s # <<>> /\ s[Len(s)] \in WhiteSpace
  THEN TrimEnd(SubSeq(s, 1, Len(s) - 1))
  ELSE s

\* String.prototype.trim
Trim(s) == TrimEnd(TrimStart(s))

\* the reply strings of the handlers
NoResponseReceived ==
  <<"N", "o", " ", "r", "e", "s", "p", "o", "n", "s", "e", " ", "r", "e", "c", "e", "i",
   "v", "e", "d", ".">>

AssistantRunFailed ==
  <<"A", "s", "s", "i", "s", "t", "a", "n", "t", " ", "r", "u", "n", " ", "f", "a", "i",
   "l", "e", "d", ".", " ", "P", "l", "e", "a", "s", "e", " ", "t", "r", "y", " ", "a",
   "g", "a", "i", "n", ".">>

NoValidResponse ==
  <<"N", "o", " ", "v", "a", "l", "i", "d", " ", "r", "e", "s", "p", "o", "n", "s", "e",
   ".">>

-----------------------------------------------------------------------------
(* Citation markers: text.replace(/OPEN \d+ : \d+ DAGGER [^CLOSE]+ CLOSE/g, "") *)

RECURSIVE SkipDigits(_, _)
SkipDigits(s, i) ==
  IF i <= Len(s) /\ s[i] \in Digits THEN SkipDigits(s, i + 1) ELSE i

RECURSIVE SkipNonClose(_, _)
SkipNonClose(s, i) ==
  IF i <= Len(s) /\ s[i] # CLOSE THEN SkipNonClose(s, i + 1) ELSE i

\* the index after the match of the pattern that starts at i, 0 when none does.
\* Each greedy run is followed by a character outside its class, so the match at
\* a given start is unique and backtracking finds no other.
MatchEnd(s, i) ==
  IF i > Len(s) \/ s[i] # OPEN THEN 0
  ELSE LET a == SkipDigits(s, i + 1) IN
       IF a = i + 1 \/ a > Len(s) \/ s[a] # ":" THEN 0
       ELSE LET b == SkipDigits(s, a + 1) IN
            IF b = a + 1 \/ b > Len(s) \/ s[b] # DAGGER THEN 0
            ELSE LET c == SkipNonClose(s, b + 1) IN
                 IF c = b + 1 \/ c > Len(s) THEN 0 ELSE c + 1

RECURSIVE StripFrom(_, _)
StripFrom(s, i) ==
  IF i > Len(s) THEN <<>>
  ELSE LET e == MatchEnd(s, i) IN
       IF e # 0 THEN StripFrom(s, e) ELSE <<s[i]>> \o StripFrom(s, i + 1)

StripCitations(s) == StripFrom(s, 1)

-----------------------------------------------------------------------------
(* fixTableFormatting *)

\* String.prototype.split with a one character separator
RECURSIVE Split(_, _)
Split(s, d) ==
  IF \E i \in DOMAIN s : s[i] = d
  THEN LET i == CHOOSE k \in DOMAIN s : s[k] = d /\ \A j \in 1..(k - 1) : s[j] # d
       IN <<SubSeq(s, 1, i - 1)>> \o Split(SubSeq(s, i + 1, Len(s)), d)
  ELSE <<s>>

\* Array.prototype.join with a one character separator
RECURSIVE Join(_, _)
Join(lines, d) ==
  IF lines = <<>> THEN <<>>
  ELSE IF Len(lines) = 1 THEN lines[1]
  ELSE lines[1] \o <<d>> \o Join(Tail(lines), d)

\* String.prototype.repeat
RECURSIVE Repeat(_, _)
Repeat(t, n) == IF n <= 0 THEN <<>> ELSE t \o Repeat(t, n - 1)

StartsWithPipe(line) == line # <<>> /\ line[1] = "|"
EndsWithPipe(line) == line # <<>> /\ line[Len(line)] = "|"

\* line.split('|').filter(c => c.trim()).length
CountCols(line) ==
  LET cells == Split(line, "|")
  IN Cardinality({k \in DOMAIN cells : Trim(cells[k]) # <<>>})

Separator(cols) == <<"|">> \o Repeat(<<" ", "-", "-", "-", " ", "|">>, cols)

RECURSIVE ProcessLines(_, _)
ProcessLines(lines, i) ==
  IF i > Len(lines) THEN <<>>
  ELSE LET line == Trim(lines[i])
           here == IF StartsWithPipe(line) /\ EndsWithPipe(line)
                   THEN IF i = 1 \/ ~StartsWithPipe(Trim(lines[i - 1]))
                        THEN <<line, Separator(CountCols(line))>>
                        ELSE <<line>>
                   ELSE <<line>>
       IN here \o ProcessLines(lines, i + 1)

fixTableFormatting(text) == Join(ProcessLines(Split(text, NL), 1), NL)

-----------------------------------------------------------------------------
(* Optional strings, the allow-list and the signIn callback *)

\* a string that may be undefined or null; JS treats undefined, null and "" as falsy
None == [some |-> FALSE, text |-> <<>>]
Some(s) == [some |-> TRUE, text |-> s]
Truthy(o) == o.some /\ o.text # <<>>

AllowedEmail ==
  <<"m", "a", "i", "l", "a", "b", "h", "i", "r", "u", "p", "b", "a", "n", "e", "r", "j",
   "e", "e", "@", "g", "m", "a", "i", "l", ".", "c", "o", "m">>

ALLOWED_EMAILS == {AllowedEmail}

\* the allow-listed address as an identity provider may report it
MixedCaseEmail == [AllowedEmail EXCEPT ![1] = "M", ![21] = "G"]

OtherEmail == <<"e", "v", "e", "@", "x", ".", "i", "o">>

\* email.toLowerCase() is a member of ALLOWED_EMAILS
IsAllowed(email) == ToLowerCase(email) \in ALLOWED_EMAILS

\* signInCallback without the toLowerCase
signInCallbackCaseSensitive(userEmail, profileEmail) ==
  LET email == IF Truthy(userEmail) THEN userEmail ELSE profileEmail
  IN IF ~Truthy(email) THEN FALSE ELSE email.text \in ALLOWED_EMAILS

\* const email = (user?.email ?? undefined) || profile?.email;
\* if (!email) return false; return ALLOWED_EMAILS.includes(email.toLowerCase())
signInCallback(userEmail, profileEmail) ==
  LET email == IF Truthy(userEmail) THEN userEmail ELSE profileEmail
  IN IF ~Truthy(email) THEN FALSE ELSE IsAllowed(email.text)

\* the emails a provider may hand to the callback
Emails ==
  {None, Some(<<>>), Some(AllowedEmail), Some(MixedCaseEmail), Some(OtherEmail),
   Some(AllowedEmail \o <<" ">>), Some(SubSeq(AllowedEmail, 1, 19)),
   Some(<<"M", "A", "I", "L">>)}

NoSignIn == [called |-> FALSE, user |-> None, profile |-> None, result |-> FALSE]

SignIn ==
  /\ ~signIn.called
  /\ signIn' = [signIn EXCEPT !.called = TRUE,
                              !.result = signInCallback(signIn.user, signIn.profile)]
  /\ UNCHANGED <<handlerVars, search, xform, chatApp>>

-----------------------------------------------------------------------------
(* The backend as the handlers see it *)

MaxBatch == 2

Statuses ==
  {"queued", "in_progress", "requires_action", "completed", "failed", "cancelled",
   "expired"}

Terminal == {"completed", "failed", "cancelled", "expired"}

\* the ways an awaited call rejects: an HTTP error whose body carries
\* error.message, an HTTP error without it, and no response at all
Failures == {"http_detail", "http_plain", "network"}

\* err.response?.data?.error?.message || err.message || "Unknown error"
ErrorMessage(f) ==
  CASE f = "http_detail" -> "backend error detail"
    [] f = "http_plain" -> "Request failed with status code 500"
    [] f = "fetch_failed" -> "fetch failed"
    [] f = "aborted" -> "This operation was aborted"
    [] f = "bad_json" -> "Unexpected token in JSON"
    [] OTHER -> "Network Error"

\* the function calls an assistant may ask for; function.arguments is taken to
\* hold a JSON object, of which the model keeps the query
ToolCallKinds ==
  {[name |-> "web_search", query |-> <<"t", "a", "x">>],
   [name |-> "web_search", query |-> <<" ">>],
   [name |-> "unknown_fn", query |-> <<>>]}

WithIds(b) == [i \in DOMAIN b |-> [id |-> i, name |-> b[i].name, query |-> b[i].query]]

\* required_action.submit_tool_outputs.tool_calls; the empty batch also stands
\* for a missing required_action
Batches == {WithIds(b) : b \in UNION {[1..n -> ToolCallKinds] : n \in 0..MaxBatch}}

\* what a run object reports
RunReports ==
  {[status |-> s, tool_calls |-> <<>>] : s \in Statuses \ {"requires_action"}}
    \cup {[status |-> "requires_action", tool_calls |-> b] : b \in Batches}

TextPart(s) == [hasText |-> TRUE, value |-> s]
ImagePart == [hasText |-> FALSE, value |-> <<>>]
\* run_id of a message: the run that wrote it, "" (null) for a user message
ThisRunId == "run_new"
EarlierRunId == "run_prev"

UserMsg == [role |-> "user", content |-> <<TextPart(<<"h", "i">>)>>, run_id |-> ""]
AsstMsg(content) == [role |-> "assistant", content |-> content, run_id |-> ThisRunId]

\* an assistant message that an earlier turn's run left in the thread
EarlierAsstMsg(content) ==
  [role |-> "assistant", content |-> content, run_id |-> EarlierRunId]

PlainText == <<"o", "k">>
ResultText == <<"R", "e", "s", "u", "l", "t", ":", " ", "4", "2">>
CitedText == ResultText \o <<" ", OPEN, "3", ":", "1", DAGGER, "d", "o", "c", CLOSE>>
OnlyCitation == <<OPEN, "1", "2", ":", "3", DAGGER, "s", CLOSE>>
TableText == <<"|", "a", "|", NL, "|", "1", "|">>

\* the message lists GET /threads/{id}/messages may return, newest first
MessageLists ==
  {<<>>,
   <<UserMsg>>,
   <<AsstMsg(<<TextPart(PlainText)>>), UserMsg>>,
   <<AsstMsg(<<TextPart(CitedText)>>), UserMsg>>,
   <<AsstMsg(<<TextPart(OnlyCitation)>>), UserMsg>>,
   <<AsstMsg(<<TextPart(TableText)>>), UserMsg>>,
   <<AsstMsg(<<ImagePart>>), UserMsg>>,
   <<AsstMsg(<<ImagePart, TextPart(PlainText)>>), UserMsg>>,
   <<AsstMsg(<<>>), UserMsg, AsstMsg(<<TextPart(PlainText)>>)>>,
   <<UserMsg, EarlierAsstMsg(<<TextPart(ResultText)>>), UserMsg>>}

-----------------------------------------------------------------------------
(* Requests, environment, responses *)

Variants == {"axios", "sdk", "gated"}

\* The request body is taken to be valid JSON. threadId "" stands for an absent,
\* null or empty threadId: all are falsy.
ThreadIds == {"", "thread_prev"}
NewThreadId == "thread_new"

Requests(v) ==
  IF v = "sdk"
  THEN [threadId : ThreadIds, assistantId : {"", "asst_1"},
        message : {None, Some(<<" ">>), Some(<<"h", "i">>)}]
  ELSE [threadId : ThreadIds, assistantId : {""}, message : {Some(<<"h", "i">>)}]

\* whether each variable of process.env is set to a non-empty value. Only the
\* variables a handler reads vary: the SDK handler reads TAVILY_API_KEY alone (its
\* module builds the client from OPENAI_API_KEY when it is loaded), the others
\* read the two OpenAI variables.
Envs(v) ==
  IF v = "sdk"
  THEN [OPENAI_API_KEY : {TRUE}, OPENAI_ASSISTANT_ID : {TRUE}, TAVILY_API_KEY : BOOLEAN]
  ELSE [OPENAI_API_KEY : BOOLEAN, OPENAI_ASSISTANT_ID : BOOLEAN,
        TAVILY_API_KEY : {FALSE}]

\* session?.user?.email as getServerSession would resolve it for the caller; only
\* the gated handler asks for it
Sessions(v) ==
  IF v = "gated"
  THEN {None, Some(<<>>), Some(AllowedEmail), Some(MixedCaseEmail), Some(OtherEmail)}
  ELSE {None, Some(AllowedEmail)}

NoResp ==
  [kind |-> "none", http |-> 0, reply |-> <<>>, threadId |-> "", error |-> "",
   status |-> "", messages |-> <<>>]

\* NextResponse.json({ reply, threadId: currentThreadId })
ReplyResp(reply, tid) ==
  [NoResp EXCEPT !.kind = "reply", !.http = 200, !.reply = reply, !.threadId = tid]

\* NextResponse.json({ error }, { status })
ErrorResp(http, msg) == [NoResp EXCEPT !.kind = "error", !.http = http, !.error = msg]

\* NextResponse.json({ status: run.status, messages: messages.data })
StatusResp(st, msgs) ==
  [NoResp EXCEPT !.kind = "status", !.http = 200, !.status = st, !.messages = msgs]

\* messagesRes.data.data, once the handler has fetched it
NoMessages == [fetched |-> FALSE, data |-> <<>>]

Fetched(msgs) == [fetched |-> TRUE, data |-> msgs]

\* runRes before run-create has answered, and runRes.data once it has
NoRun == [made |-> FALSE, status |-> ""]

Created(s) == [made |-> TRUE, status |-> s]

\* statuses put in runRes.data.status by the run-create call of the axios and
\* the gated handler, which do not read it: a run just queued, one that already
\* asks for tool outputs, one that already ended
CreateStatuses == {"queued", "requires_action", "failed"}

NoSubmit == [made |-> FALSE, calls |-> <<>>, tool_outputs |-> <<>>]

\* a catch block that notes the error and lets the handler go on
CatchAndGoOn(what, f) ==
  /\ resp' = ErrorResp(500, ErrorMessage(f))
  /\ cause' = what
  /\ pc' = pc

\* the catch block of the axios and the gated handler
Catch(what, f) ==
  /\ resp' = ErrorResp(500, ErrorMessage(f))
  /\ cause' = what
  /\ pc' = "done"

\* the catch block of the SDK handler: { error: apiData ?? message }, status 400
SdkCatch(what, f) ==
  /\ resp' = ErrorResp(400, ErrorMessage(f))
  /\ cause' = what
  /\ pc' = "done"

-----------------------------------------------------------------------------
(* The axios handler (and the gated handler, which shares its code but for  *)
(* the session check, the poll loop body and the reply)                     *)

maxRetries == 30
maxRetriesGated == 25

RetryBudget == IF variant = "gated" THEN maxRetriesGated ELSE maxRetries

\* the poll loop's condition without its test of the status
PollingBudgetOnly == retries < RetryBudget

\* the poll loop's condition
Polling == status \in {"in_progress", "queued"} /\ retries < RetryBudget

\* getServerSession, then the 401 and 403 answers of the gated handler
SessionCheck ==
  /\ variant = "gated"
  /\ pc = "start"
  /\ IF ~Truthy(session)
     THEN resp' = ErrorResp(401, "Unauthorized") /\ pc' = "done"
     ELSE IF ~IsAllowed(session.text)
          THEN resp' = ErrorResp(403, "Access denied") /\ pc' = "done"
          ELSE resp' = resp /\ pc' = "config"
  /\ UNCHANGED <<variant, req, env, session, currentThreadId, status, retries,
                 toolCalls, outputs, submitted, issued, cause, signIn,
                 search, xform, chatApp, messagesRes, runRes>>

\* CredentialCheck with && in place of ||: it stops only when both are missing
CredentialCheckBothMissing ==
  /\ \/ variant = "axios" /\ pc = "start"
     \/ variant = "gated" /\ pc = "config"
  /\ IF ~env.OPENAI_API_KEY /\ ~env.OPENAI_ASSISTANT_ID
     THEN /\ resp' = ErrorResp(500, "Missing OpenAI credentials")
          /\ pc' = "done"
          /\ UNCHANGED currentThreadId
     ELSE /\ currentThreadId' = req.threadId
          /\ pc' = "thread"
          /\ UNCHANGED resp
  /\ UNCHANGED <<variant, req, env, session, status, retries, toolCalls, outputs,
                 submitted, issued, cause, signIn,
                 search, xform, chatApp, messagesRes, runRes>>

\* if (!OPENAI_API_KEY || !ASSISTANT_ID) return { error }, status 500
CredentialCheck ==
  /\ \/ variant = "axios" /\ pc = "start"
     \/ variant = "gated" /\ pc = "config"
  /\ IF ~env.OPENAI_API_KEY \/ ~env.OPENAI_ASSISTANT_ID
     THEN /\ resp' = ErrorResp(500, "Missing OpenAI credentials")
          /\ pc' = "done"
          /\ UNCHANGED currentThreadId
     ELSE /\ currentThreadId' = req.threadId
          /\ pc' = "thread"
          /\ UNCHANGED resp
  /\ UNCHANGED <<variant, req, env, session, status, retries, toolCalls, outputs,
                 submitted, issued, cause, signIn,
                 search, xform, chatApp, messagesRes, runRes>>

\* if (!currentThreadId) currentThreadId = (await axios.post(".../threads")).data.id
EnsureThread ==
  /\ variant \in {"axios", "gated"}
  /\ pc = "thread"
  /\ IF currentThreadId = ""
     THEN /\ issued' = issued \cup {"thread_create"}
          /\ \/ /\ currentThreadId' = NewThreadId
                /\ pc' = "message"
                /\ UNCHANGED <<resp, cause>>
             \/ /\ \E f \in Failures : Catch("thread_create", f)
                /\ UNCHANGED currentThreadId
     ELSE /\ pc' = "message"
          /\ UNCHANGED <<currentThreadId, issued, resp, cause>>
  /\ UNCHANGED <<variant, req, env, session, status, retries, toolCalls, outputs,
                 submitted, signIn,
                 search, xform, chatApp, messagesRes, runRes>>

\* await axios.post(".../threads/{id}/messages", { role: "user", content: input })
PostMessage ==
  /\ variant \in {"axios", "gated"}
  /\ pc = "message"
  /\ issued' = issued \cup {"message_create"}
  /\ \/ pc' = "run" /\ UNCHANGED <<resp, cause>>
     \/ \E f \in Failures : Catch("message_create", f)
  /\ UNCHANGED <<variant, req, env, session, currentThreadId, status, retries,
                 toolCalls, outputs, submitted, signIn,
                 search, xform, chatApp, messagesRes, runRes>>

\* CreateRun reached again from inside the poll loop
CreateRunInLoop ==
  /\ variant \in {"axios", "gated"}
  /\ pc \in {"run", "loop"}
  /\ issued' = issued \cup {"run_create"}
  /\ \/ /\ \E s \in CreateStatuses : runRes' = Created(s)
        /\ status' = "in_progress"
        /\ retries' = 0
        /\ pc' = "loop"
        /\ UNCHANGED <<resp, cause>>
     \/ /\ \E f \in Failures : Catch("run_create", f)
        /\ UNCHANGED <<status, retries, runRes>>
  /\ UNCHANGED <<variant, req, env, session, currentThreadId, toolCalls, outputs,
                 submitted, signIn,
                 search, xform, chatApp, messagesRes>>

\* const runRes = await axios.post(".../runs"); status = "in_progress"; retries = 0
CreateRun ==
  /\ variant \in {"axios", "gated"}
  /\ pc = "run"
  /\ issued' = issued \cup {"run_create"}
  /\ \/ /\ \E s \in CreateStatuses : runRes' = Created(s)
        /\ status' = "in_progress"
        /\ retries' = 0
        /\ pc' = "loop"
        /\ UNCHANGED <<resp, cause>>
     \/ /\ \E f \in Failures : Catch("run_create", f)
        /\ UNCHANGED <<status, retries, runRes>>
  /\ UNCHANGED <<variant, req, env, session, currentThreadId, toolCalls, outputs,
                 submitted, signIn,
                 search, xform, chatApp, messagesRes>>

\* toolCalls.map(call => ({ tool_call_id: call.id,
\*   output: JSON.stringify({ error: "Tool not implemented yet" }) }))
MockToolOutputs(calls) ==
  [i \in DOMAIN calls |->
     [tool_call_id |-> calls[i].id,
      output |-> [kind |-> "error", error |-> <<"Tool not implemented yet">>]]]

\* one iteration of the axios handler's loop, up to its await of the submit call
Poll ==
  /\ variant = "axios"
  /\ pc = "loop"
  /\ Polling
  /\ issued' = issued \cup {"run_retrieve"}
  /\ \/ \E r \in RunReports :
          /\ status' = r.status
          /\ IF r.status = "requires_action"
             THEN /\ toolCalls' = r.tool_calls
                  /\ submitted' = NoSubmit
                  /\ IF Len(r.tool_calls) > 0
                     THEN /\ outputs' = MockToolOutputs(r.tool_calls)
                          /\ pc' = "submit"
                          /\ UNCHANGED retries
                     ELSE /\ retries' = retries + 1
                          /\ UNCHANGED <<outputs, pc>>
             ELSE /\ retries' = retries + 1
                  /\ UNCHANGED <<toolCalls, outputs, submitted, pc>>
          /\ UNCHANGED <<resp, cause>>
     \/ /\ \E f \in Failures : Catch("run_retrieve", f)
        /\ UNCHANGED <<status, retries, toolCalls, outputs, submitted>>
  /\ UNCHANGED <<variant, req, env, session, currentThreadId, signIn,
                 search, xform, chatApp, messagesRes, runRes>>

\* await axios.post(".../submit_tool_outputs"); status = "in_progress"; retries++
SubmitMock ==
  /\ variant = "axios"
  /\ pc = "submit"
  /\ issued' = issued \cup {"submit_tool_outputs"}
  /\ submitted' = [made |-> TRUE, calls |-> toolCalls, tool_outputs |-> outputs]
  /\ \/ /\ status' = "in_progress"
        /\ retries' = retries + 1
        /\ pc' = "loop"
        /\ UNCHANGED <<resp, cause>>
     \/ /\ \E f \in Failures : Catch("submit_tool_outputs", f)
        /\ UNCHANGED <<status, retries>>
  /\ toolCalls' = <<>>
  /\ outputs' = <<>>
  /\ UNCHANGED <<variant, req, env, session, currentThreadId, signIn,
                 search, xform, chatApp, messagesRes, runRes>>

\* one iteration of the gated handler's loop: no requires_action handling
PollGated ==
  /\ variant = "gated"
  /\ pc = "loop"
  /\ Polling
  /\ issued' = issued \cup {"run_retrieve"}
  /\ \/ \E r \in RunReports :
          /\ status' = r.status
          /\ retries' = retries + 1
          /\ UNCHANGED <<pc, resp, cause>>
     \/ /\ \E f \in Failures : Catch("run_retrieve", f)
        /\ UNCHANGED <<status, retries>>
  /\ UNCHANGED <<variant, req, env, session, currentThreadId, toolCalls, outputs,
                 submitted, signIn,
                 search, xform, chatApp, messagesRes, runRes>>

\* messagesRes.data.data.find(m => m.role === "assistant")
\*   ?.content?.[0]?.text?.value?.replace(...) || "No valid response."
\* the extraction without its || "No valid response." fallback
ExtractReplyNoFallback(msgs) ==
  IF \A i \in DOMAIN msgs : msgs[i].role # "assistant" THEN <<>>
  ELSE LET k == CHOOSE i \in DOMAIN msgs : /\ msgs[i].role = "assistant"
                  /\ \A j \in 1..(i - 1) : msgs[j].role # "assistant"
           content == msgs[k].content
       IN IF content = <<>> \/ ~content[1].hasText THEN <<>>
          ELSE StripCitations(content[1].value)

ExtractReply(msgs) ==
  IF \A i \in DOMAIN msgs : msgs[i].role # "assistant" THEN NoValidResponse
  ELSE LET k == CHOOSE i \in DOMAIN msgs :
                  /\ msgs[i].role = "assistant"
                  /\ \A j \in 1..(i - 1) : msgs[j].role # "assistant"
           content == msgs[k].content
       IN IF content = <<>> \/ ~content[1].hasText THEN NoValidResponse
          ELSE LET stripped == StripCitations(content[1].value)
               IN IF stripped = <<>> THEN NoValidResponse ELSE stripped

\* the reply of the axios handler for a run that did not complete
SentinelReply(st) ==
  IF st = "failed" THEN AssistantRunFailed ELSE NoResponseReceived

\* ReturnSentinel that throws for a failed run instead of replying
ReturnSentinelThrowing ==
  /\ variant = "axios"
  /\ pc = "loop"
  /\ ~Polling
  /\ status # "completed"
  /\ IF status = "failed"
     THEN Catch("run_failed", "http_plain")
     ELSE /\ resp' = ReplyResp(SentinelReply(status), currentThreadId)
          /\ pc' = "done"
          /\ UNCHANGED cause
  /\ UNCHANGED <<variant, req, env, session, currentThreadId, status, retries,
                 toolCalls, outputs, submitted, issued, signIn,
                 search, xform, chatApp, messagesRes, runRes>>

\* after the loop, status is not "completed": return { reply, threadId }
ReturnSentinel ==
  /\ variant = "axios"
  /\ pc = "loop"
  /\ ~Polling
  /\ status # "completed"
  /\ resp' = ReplyResp(SentinelReply(status), currentThreadId)
  /\ pc' = "done"
  /\ UNCHANGED <<variant, req, env, session, currentThreadId, status, retries,
                 toolCalls, outputs, submitted, issued, cause, signIn,
                 search, xform, chatApp, messagesRes, runRes>>

\* after the loop, status is "completed": fetch the messages, return the reply
ReturnReply ==
  /\ variant = "axios"
  /\ pc = "loop"
  /\ ~Polling
  /\ status = "completed"
  /\ issued' = issued \cup {"message_list"}
  /\ \/ \E msgs \in MessageLists :
          /\ messagesRes' = Fetched(msgs)
          /\ resp' = ReplyResp(ExtractReply(msgs), currentThreadId)
          /\ pc' = "done"
          /\ UNCHANGED cause
     \/ \E f \in Failures : Catch("message_list", f) /\ UNCHANGED messagesRes
  /\ UNCHANGED <<variant, req, env, session, currentThreadId, status, retries,
                 toolCalls, outputs, submitted, signIn, search, xform, chatApp, runRes>>

\* the reply of the gated handler for a run that did not complete:
\* let reply = "No response received."; ...; reply = fixTableFormatting(reply)
SentinelReplyGated(st) == fixTableFormatting(NoResponseReceived)

\* the gated handler after the loop, status not "completed"
ReturnSentinelGated ==
  /\ variant = "gated"
  /\ pc = "loop"
  /\ ~Polling
  /\ status # "completed"
  /\ resp' = ReplyResp(SentinelReplyGated(status), currentThreadId)
  /\ pc' = "done"
  /\ UNCHANGED <<variant, req, env, session, currentThreadId, status, retries,
                 toolCalls, outputs, submitted, issued, cause, signIn,
                 search, xform, chatApp, messagesRes, runRes>>

\* the gated handler after the loop, status "completed"
ReturnReplyGated ==
  /\ variant = "gated"
  /\ pc = "loop"
  /\ ~Polling
  /\ status = "completed"
  /\ issued' = issued \cup {"message_list"}
  /\ \/ \E msgs \in MessageLists :
          /\ messagesRes' = Fetched(msgs)
          /\ resp' = ReplyResp(fixTableFormatting(ExtractReply(msgs)), currentThreadId)
          /\ pc' = "done"
          /\ UNCHANGED cause
     \/ \E f \in Failures : Catch("message_list", f) /\ UNCHANGED messagesRes
  /\ UNCHANGED <<variant, req, env, session, currentThreadId, status, retries,
                 toolCalls, outputs, submitted, signIn, search, xform, chatApp, runRes>>

-----------------------------------------------------------------------------
(* The SDK handler *)

\* if (!threadId || !assistantId) return { error }, status 400
SdkValidate ==
  /\ variant = "sdk"
  /\ pc = "start"
  /\ IF req.threadId = "" \/ req.assistantId = ""
     THEN /\ resp' = ErrorResp(400, "threadId and assistantId are required")
          /\ pc' = "done"
          /\ UNCHANGED currentThreadId
     ELSE /\ currentThreadId' = req.threadId
          /\ pc' = "message"
          /\ UNCHANGED resp
  /\ UNCHANGED <<variant, req, env, session, status, retries, toolCalls, outputs,
                 submitted, issued, cause, signIn,
                 search, xform, chatApp, messagesRes, runRes>>

\* if (typeof message === "string" && message.trim().length > 0) messages.create(...)
SdkPostMessage ==
  /\ variant = "sdk"
  /\ pc = "message"
  /\ IF req.message.some /\ Len(Trim(req.message.text)) > 0
     THEN /\ issued' = issued \cup {"message_create"}
          /\ \/ pc' = "run" /\ UNCHANGED <<resp, cause>>
             \/ \E f \in Failures : SdkCatch("message_create", f)
     ELSE /\ pc' = "run"
          /\ UNCHANGED <<issued, resp, cause>>
  /\ UNCHANGED <<variant, req, env, session, currentThreadId, status, retries,
                 toolCalls, outputs, submitted, signIn,
                 search, xform, chatApp, messagesRes, runRes>>

\* let run = await client.beta.threads.runs.create(threadId, { assistant_id })
SdkCreateRun ==
  /\ variant = "sdk"
  /\ pc = "run"
  /\ issued' = issued \cup {"run_create"}
  /\ \/ \E r \in RunReports :
          /\ runRes' = Created(r.status)
          /\ status' = r.status
          /\ toolCalls' = r.tool_calls
          /\ pc' = "loop"
          /\ UNCHANGED <<resp, cause>>
     \/ /\ \E f \in Failures : SdkCatch("run_create", f)
        /\ UNCHANGED <<status, toolCalls, runRes>>
  /\ UNCHANGED <<variant, req, env, session, currentThreadId, retries, outputs,
                 submitted, signIn,
                 search, xform, chatApp, messagesRes>>

\* one promise of the batch; fetch records how the fetch it awaits has settled
Pending(id) ==
  [state |-> "pending", tool_call_id |-> id,
   output |-> [kind |-> "none", error |-> <<>>], fetch |-> "pending"]
Resolved(id, out) ==
  [state |-> "resolved", tool_call_id |-> id, output |-> out, fetch |-> "none"]
ErrorPayload(msg) == [kind |-> "error", error |-> msg]
ResultsPayload == [kind |-> "results", error |-> <<>>]

\* one callback of toolCalls.map, run up to its first await: an unknown tool
\* resolves at once; doWebSearch resolves at once for an empty query or a missing
\* key and otherwise awaits fetch
StartTool(tc) ==
  IF tc.name = "web_search"
  THEN IF Len(Trim(tc.query)) = 0
       THEN Resolved(tc.id, ErrorPayload(<<"Missing query">>))
       ELSE IF ~env.TAVILY_API_KEY
            THEN Resolved(tc.id, ErrorPayload(<<"Tavily API key not configured">>))
            ELSE Pending(tc.id)
  ELSE Resolved(tc.id, ErrorPayload(<<"Unknown tool: ", tc.name>>))

\* run.status === "requires_action": Promise.all(toolCalls.map(async tc => ...))
SdkDispatch ==
  /\ variant = "sdk"
  /\ pc = "loop"
  /\ status = "requires_action"
  /\ outputs' = [i \in DOMAIN toolCalls |-> StartTool(toolCalls[i])]
  /\ issued' = IF \E i \in DOMAIN toolCalls : StartTool(toolCalls[i]).state = "pending"
               THEN issued \cup {"search"}
               ELSE issued
  /\ submitted' = NoSubmit
  /\ pc' = "tools"
  /\ UNCHANGED <<variant, req, env, session, currentThreadId, status, retries,
                 toolCalls, resp, cause, signIn,
                 search, xform, chatApp, messagesRes, runRes>>

\* how the fetch of doWebSearch settles: rejected (transport error), rejected by
\* controller.abort() after 10 s, answered with a non-ok status, answered ok
\* with a body r.json() rejects, answered ok
FetchOutcomes == {"fetch_failed", "aborted", "not_ok", "bad_json", "ok"}

\* doWebSearch after its await of fetch
FetchSettled(id, o) ==
  IF o = "not_ok"
  THEN [Resolved(id, ErrorPayload(<<"Tavily error: ", "500">>)) EXCEPT !.fetch = o]
  ELSE [Resolved(id, ResultsPayload) EXCEPT !.fetch = o]

\* doWebSearch throwing for a non-ok answer as well
FetchThrowsNotOk(o) == o \in {"fetch_failed", "aborted", "bad_json", "not_ok"}

\* whether doWebSearch throws for this outcome of fetch: .catch(e => { throw e }),
\* and await r.json() outside any try
FetchThrows(o) == o \in {"fetch_failed", "aborted", "bad_json"}

\* one pending fetch of the batch settles
SdkSettle ==
  /\ variant = "sdk"
  /\ pc = "tools"
  /\ \E i \in DOMAIN outputs, o \in FetchOutcomes :
       /\ outputs[i].state = "pending"
       /\ IF FetchThrows(o)
          THEN /\ SdkCatch("tool", o)
               /\ outputs' = [outputs EXCEPT ![i].fetch = o]
          ELSE /\ outputs' = [outputs EXCEPT ![i] = FetchSettled(outputs[i].tool_call_id, o)]
               /\ UNCHANGED <<pc, resp, cause>>
  /\ UNCHANGED <<variant, req, env, session, currentThreadId, status, retries,
                 toolCalls, submitted, issued, signIn,
                 search, xform, chatApp, messagesRes, runRes>>

\* the tool_outputs array Promise.all resolves to
ToolOutputs(outs) ==
  [i \in DOMAIN outs |-> [tool_call_id |-> outs[i].tool_call_id, output |-> outs[i].output]]

\* run = await client.beta.threads.runs.submitToolOutputs(run.id, { tool_outputs })
SdkSubmit ==
  /\ variant = "sdk"
  /\ pc = "tools"
  /\ \A i \in DOMAIN outputs : outputs[i].state = "resolved"
  /\ issued' = issued \cup {"submit_tool_outputs"}
  /\ submitted' = [made |-> TRUE, calls |-> toolCalls, tool_outputs |-> ToolOutputs(outputs)]
  /\ \/ \E r \in RunReports :
          /\ runRes' = Created(r.status)
          /\ status' = r.status
          /\ toolCalls' = r.tool_calls
          /\ pc' = "loop"
          /\ UNCHANGED <<resp, cause>>
     \/ /\ \E f \in Failures : SdkCatch("submit_tool_outputs", f)
        /\ UNCHANGED <<status, toolCalls, runRes>>
  /\ outputs' = <<>>
  /\ UNCHANGED <<variant, req, env, session, currentThreadId, retries, signIn,
                 search, xform, chatApp, messagesRes>>

\* SdkRetrieve taken for a run in requires_action as well
SdkRetrieveDuringPause ==
  /\ variant = "sdk"
  /\ pc = "loop"
  /\ status \notin Terminal
  /\ issued' = issued \cup {"run_retrieve"}
  /\ \/ \E r \in RunReports :
          /\ runRes' = Created(r.status)
          /\ status' = r.status
          /\ toolCalls' = r.tool_calls
          /\ UNCHANGED <<pc, resp, cause>>
     \/ /\ \E f \in Failures : SdkCatch("run_retrieve", f)
        /\ UNCHANGED <<status, toolCalls, runRes>>
  /\ UNCHANGED <<variant, req, env, session, currentThreadId, retries, outputs,
                 submitted, signIn,
                 search, xform, chatApp, messagesRes>>

\* await sleep(700); run = await client.beta.threads.runs.retrieve(run.id, ...)
SdkRetrieve ==
  /\ variant = "sdk"
  /\ pc = "loop"
  /\ status \notin Terminal
  /\ status # "requires_action"
  /\ issued' = issued \cup {"run_retrieve"}
  /\ \/ \E r \in RunReports :
          /\ runRes' = Created(r.status)
          /\ status' = r.status
          /\ toolCalls' = r.tool_calls
          /\ UNCHANGED <<pc, resp, cause>>
     \/ /\ \E f \in Failures : SdkCatch("run_retrieve", f)
        /\ UNCHANGED <<status, toolCalls, runRes>>
  /\ UNCHANGED <<variant, req, env, session, currentThreadId, retries, outputs,
                 submitted, signIn,
                 search, xform, chatApp, messagesRes>>

\* const messages = await client.beta.threads.messages.list(threadId, { limit: 20 });
\* return { status: run.status, messages: messages.data }
SdkListMessages ==
  /\ variant = "sdk"
  /\ pc = "loop"
  /\ status \in Terminal
  /\ issued' = issued \cup {"message_list"}
  /\ \/ \E msgs \in MessageLists :
          /\ resp' = StatusResp(status, msgs)
          /\ pc' = "done"
          /\ UNCHANGED cause
     \/ \E f \in Failures : SdkCatch("message_list", f)
  /\ UNCHANGED <<variant, req, env, session, currentThreadId, status, retries,
                 toolCalls, outputs, submitted, signIn,
                 search, xform, chatApp, messagesRes, runRes>>

-----------------------------------------------------------------------------
(* Text transformations applied on their own *)

\* no search is being made
NoSearch == [pc |-> "off"]

\* no request is being handled
\* the chat page is not part of the run
NoApp == [phase |-> "off"]

HandlerOff ==
  /\ variant = "axios"
  /\ req = [threadId |-> "", assistantId |-> "", message |-> None]
  /\ env = [OPENAI_API_KEY |-> FALSE, OPENAI_ASSISTANT_ID |-> FALSE,
            TAVILY_API_KEY |-> FALSE]
  /\ session = None
  /\ pc = "off"
  /\ currentThreadId = ""
  /\ status = ""
  /\ retries = 0
  /\ toolCalls = <<>>
  /\ outputs = <<>>
  /\ submitted = NoSubmit
  /\ issued = {}
  /\ cause = "none"
  /\ resp = NoResp
  /\ messagesRes = NoMessages
  /\ runRes = NoRun

NoText == [fn |-> "none", input |-> <<>>, once |-> <<>>, twice |-> <<>>, applied |-> 0]

MaxPieces == 3
MaxLines == 3

RECURSIVE Flatten(_)
Flatten(seqs) == IF seqs = <<>> THEN <<>> ELSE Head(seqs) \o Flatten(Tail(seqs))

Marker == <<OPEN, "3", ":", "1", DAGGER, "d", CLOSE>>
MarkerHead == <<OPEN, "1", ":">>
MarkerTail == <<"2", DAGGER, "x", CLOSE>>

\* what an assistant's text is put together from: plain characters, the
\* characters a marker is made of, whole markers and the two ends of one
StripPieces ==
  {<<"a">>, <<" ">>, <<"1">>, <<":">>, <<OPEN>>, <<DAGGER>>, <<CLOSE>>,
   Marker, MarkerHead, MarkerTail}

StripInputs ==
  {Flatten(ps) : ps \in UNION {[1..n -> StripPieces] : n \in 0..MaxPieces}}

HeaderRow == <<"|", "a", "|", "b", "|">>
DataRow == <<"|", "1", "|", "2", "|">>
SeparatorRow == <<"|", "-", "-", "-", "|", "-", "-", "-", "|">>

\* a header row of two columns whose second cell is empty, and an indented line
EmptyCellRow == <<"|", "a", "|", " ", "|">>
IndentedLine == <<" ", "x">>

\* the lines of a reply: table rows, separator rows as a model writes them and
\* as the repair writes them, prose, padded and degenerate lines
TableLines ==
  {HeaderRow, DataRow, SeparatorRow, Separator(2), <<"x">>,
   <<" ">> \o HeaderRow \o <<" ">>, <<>>, <<"|">>, EmptyCellRow, IndentedLine}

TableInputs ==
  {Join(ls, NL) : ls \in UNION {[1..n -> TableLines] : n \in 1..MaxLines}}
    \cup {NoResponseReceived, NoValidResponse}

InitText ==
  /\ HandlerOff
  /\ signIn = NoSignIn
  /\ search = NoSearch
  /\ chatApp = NoApp
  /\ \/ xform \in {[NoText EXCEPT !.fn = "strip", !.input = t] : t \in StripInputs}
     \/ xform \in {[NoText EXCEPT !.fn = "fixTable", !.input = t] : t \in TableInputs}

\* reply = text.replace(/.../g, "")
Strip ==
  /\ xform.fn = "strip"
  /\ xform.applied = 0
  /\ xform' = [xform EXCEPT !.once = StripCitations(xform.input), !.applied = 1]
  /\ UNCHANGED <<handlerVars, signIn, search, chatApp>>

\* the strip applied to a text that was stripped already
StripAgain ==
  /\ xform.fn = "strip"
  /\ xform.applied = 1
  /\ xform' = [xform EXCEPT !.twice = StripCitations(xform.once), !.applied = 2]
  /\ UNCHANGED <<handlerVars, signIn, search, chatApp>>

\* reply = fixTableFormatting(reply)
FixTable ==
  /\ xform.fn = "fixTable"
  /\ xform.applied = 0
  /\ xform' = [xform EXCEPT !.once = fixTableFormatting(xform.input), !.applied = 1]
  /\ UNCHANGED <<handlerVars, signIn, search, chatApp>>

\* the repair applied to a text that was repaired already
FixTableAgain ==
  /\ xform.fn = "fixTable"
  /\ xform.applied = 1
  /\ xform' = [xform EXCEPT !.twice = fixTableFormatting(xform.once), !.applied = 2]
  /\ UNCHANGED <<handlerVars, signIn, search, chatApp>>

NextText == Strip \/ StripAgain \/ FixTable \/ FixTableAgain

SpecText == InitText /\ [][NextText]_vars

-----------------------------------------------------------------------------
(* The search adapters *)

\* JSON values as a tool call's arguments or a request body hold them. A number
\* is held in halves (n = 3 is 1.5) so that Math.trunc has something to cut;
\* num tells a finite number from Infinity (JSON.parse("1e999")), -Infinity and
\* the NaN that Number() produces.
JUndefined == [t |-> "undefined", s |-> <<>>, num |-> "none", n |-> 0, a |-> <<>>]
JStr(str) == [t |-> "string", s |-> str, num |-> "none", n |-> 0, a |-> <<>>]
JNum(halves) == [t |-> "number", s |-> <<>>, num |-> "finite", n |-> halves, a |-> <<>>]
JInt(i) == JNum(2 * i)
JInfinity == [t |-> "number", s |-> <<>>, num |-> "inf", n |-> 0, a |-> <<>>]
JNegInfinity == [t |-> "number", s |-> <<>>, num |-> "-inf", n |-> 0, a |-> <<>>]
JNaN == [t |-> "number", s |-> <<>>, num |-> "nan", n |-> 0, a |-> <<>>]
JArr(elems) == [t |-> "array", s |-> <<>>, num |-> "none", n |-> 0, a |-> elems]

MathMax(x, y) == IF x >= y THEN x ELSE y
MathMin(x, y) == IF x <= y THEN x ELSE y

\* Math.trunc of a finite number held in halves: the integer toward zero
MathTrunc(halves) == IF halves >= 0 THEN halves \div 2 ELSE -((-halves) \div 2)

DigitChars == <<"0", "1", "2", "3", "4", "5", "6", "7", "8", "9">>
DigitValue(c) == (CHOOSE i \in DOMAIN DigitChars : DigitChars[i] = c) - 1

RECURSIVE DecimalValue(_)
DecimalValue(str) ==
  IF str = <<>> THEN 0
  ELSE 10 * DecimalValue(SubSeq(str, 1, Len(str) - 1)) + DigitValue(str[Len(str)])

\* Number(v) for a number or a string of blanks, digits and letters: a blank
\* string is 0, a run of digits its value, any other string NaN
ToNumber(v) ==
  IF v.t = "number" THEN v
  ELSE IF v.t = "string"
       THEN LET str == Trim(v.s) IN
            IF \A i \in DOMAIN str : str[i] \in Digits THEN JInt(DecimalValue(str))
            ELSE JNaN
       ELSE JNaN

\* toBoundedInt without the upper limit
toBoundedIntNoMax(v, fallback, min, max) ==
  IF v.t = "number" /\ v.num = "finite"
  THEN MathMax(MathTrunc(v.n), min)
  ELSE MathMin(MathMax(fallback, min), max)

toBoundedInt(v, fallback, min, max) ==
  IF v.t = "number" /\ v.num = "finite"
  THEN MathMin(MathMax(MathTrunc(v.n), min), max)
  ELSE MathMin(MathMax(fallback, min), max)

\* boundInt(n, min, max) of the search route
boundInt(n, min, max) ==
  LET v == ToNumber(n) IN
  IF v.num # "finite" THEN min
  ELSE MathMin(MathMax(MathTrunc(v.n), min), max)

\* toNonEmptyString(v) ?? ""
toNonEmptyString(v) == IF v.t = "string" THEN Trim(v.s) ELSE <<>>

RECURSIVE FilterStrings(_)
FilterStrings(elems) ==
  IF elems = <<>> THEN <<>>
  ELSE IF Head(elems).t = "string" /\ Trim(Head(elems).s) # <<>>
       THEN <<Trim(Head(elems).s)>> \o FilterStrings(Tail(elems))
       ELSE FilterStrings(Tail(elems))

\* v.filter(x => typeof x === "string").map(x => x.trim()).filter(Boolean)
toStringArray(v) == IF v.t # "array" THEN <<>> ELSE FilterStrings(v.a)

EyCom == <<"e", "y", ".", "c", "o", "m">>

DefaultMaxResults == 3
MinMaxResults == 1
MaxMaxResults == 10

MaxProviderResults == 3
ManyResults == 12

SearchImpls == {"tool", "route", "route2"}

QueryInputs ==
  {JUndefined, JInt(5), JStr(<<>>), JStr(<<" ">>), JStr(<<" ", "t", "a", "x", " ">>)}

\* -1.5, -1, 0, 0.5, 1, 1.5, 3, 9.5, 10, 10.5, 11, 999
NumberInputs == {JNum(h) : h \in {-3, -2, 0, 1, 2, 3, 6, 19, 20, 21, 22, 1998}}

MaxResultsInputs ==
  NumberInputs \cup {JUndefined, JInfinity, JNegInfinity, JStr(<<"7">>), JStr(<<"x">>)}

DomainInputs ==
  {JUndefined,
   JStr(EyCom),
   JArr(<<>>),
   JArr(<<JStr(<<" ">>)>>),
   JArr(<<JInt(1)>>),
   JArr(<<JStr(<<"a", ".", "c">>)>>),
   JArr(<<JStr(<<" ", "a", ".", "c", " ">>), JInt(1), JStr(<<>>), JStr(<<"b", ".", "o">>)>>)}

SearchArgs == [query : QueryInputs, max_results : MaxResultsInputs,
               include_domains : DomainInputs]

\* the entries of the provider's results, told apart by a letter
Letters == <<"a", "b", "c", "d", "e", "f", "g", "h", "i", "j", "k", "l", "m", "n">>

Item(i) ==
  [title |-> IF i % 2 = 0 THEN None ELSE Some(<<"t", Letters[i]>>),
   url |-> IF i % 5 = 0 THEN None ELSE Some(<<"u", Letters[i]>>),
   content |-> IF i % 3 = 0 THEN None ELSE Some(<<"c", Letters[i]>>),
   snippet |-> IF i % 3 = 1 \/ i % 6 = 0 THEN None ELSE Some(<<"s", Letters[i]>>)]

\* the body of an ok answer: results missing, or a list of entries
ProviderData ==
  {[hasResults |-> FALSE, results |-> <<>>]} \cup
  {[hasResults |-> TRUE, results |-> [i \in 1..n |-> Item(i)]] :
     n \in (0..MaxProviderResults) \cup {ManyResults}}

NoData == [outcome |-> "none", hasResults |-> FALSE, results |-> <<>>]

NotSent == [made |-> FALSE, query |-> JUndefined, max_results |-> JUndefined,
            include_domains |-> JUndefined]

NoOut == [kind |-> "none", http |-> 0, error |-> <<>>, query |-> JUndefined,
          include_domains |-> JUndefined, count |-> 0, results |-> <<>>]

\* { error: msg } as the value doWebSearch returns
ErrorValue(msg) == [NoOut EXCEPT !.kind = "payload", !.error = msg]

\* the promise of doWebSearch rejected
Thrown(msg) == [NoOut EXCEPT !.kind = "thrown", !.error = msg]

\* NextResponse.json({ error: msg }, { status })
ErrorResponse(http, msg) == [NoOut EXCEPT !.kind = "response", !.http = http, !.error = msg]

OrEmpty(o) == IF o.some THEN o.text ELSE <<>>

\* x => ({ title: x.title ?? "", url: x.url ?? "", snippet: x.content ?? x.snippet ?? "" })
Formatted(x) ==
  [title |-> OrEmpty(x.title),
   url |-> OrEmpty(x.url),
   snippet |-> IF x.content.some THEN x.content.text ELSE OrEmpty(x.snippet)]

\* the normalisation with the entries taken from the end of the list
NormalizeFromEnd(list, max_results) ==
  [i \in 1..MathMin(Len(list), max_results) |->
     Formatted(list[Len(list) - MathMin(Len(list), max_results) + i])]

\* the normalisation without the slice: list.map(...)
NormalizeUncut(list, max_results) ==
  [i \in 1..Len(list) |-> Formatted(list[i])]

\* list.slice(0, max_results).map(...)
Normalize(list, max_results) ==
  [i \in 1..MathMin(Len(list), max_results) |-> Formatted(list[i])]

JStrings(strs) == JArr([i \in DOMAIN strs |-> JStr(strs[i])])
Strings(arr) == [i \in DOMAIN arr.a |-> arr.a[i].s]

\* { query, include_domains, count: list.length, results: ... }
ResultsValue(kind, query, include_domains, data, max_results) ==
  LET list == IF data.hasResults THEN data.results ELSE <<>>
  IN [NoOut EXCEPT !.kind = kind, !.http = IF kind = "response" THEN 200 ELSE 0,
                   !.query = JStr(query), !.include_domains = JStrings(include_domains),
                   !.count = Len(list), !.results = Normalize(list, max_results)]

\* if (query.length === 0), never taken
MissingQueryNever(query) == FALSE

\* if (query.length === 0)
MissingQuery(query) == Len(query) = 0

Finished(out) == [search EXCEPT !.pc = "done", !.out = out]

Fetching(query, max_results, include_domains) ==
  [search EXCEPT !.pc = "fetch",
                 !.sent = [made |-> TRUE, query |-> query, max_results |-> max_results,
                           include_domains |-> include_domains]]

\* the web_search branch of the tool dispatch and doWebSearch up to its fetch
ToolSearchStart ==
  /\ search.pc = "start"
  /\ search.impl = "tool"
  /\ LET args == [query |-> toNonEmptyString(search.args.query),
                  max_results |-> toBoundedInt(search.args.max_results,
                                    DefaultMaxResults, MinMaxResults, MaxMaxResults),
                  include_domains |-> toStringArray(search.args.include_domains)]
         query == Trim(args.query)
         max_results == toBoundedInt(JInt(args.max_results),
                          DefaultMaxResults, MinMaxResults, MaxMaxResults)
         include_domains == IF Len(args.include_domains) > 0
                            THEN args.include_domains ELSE <<EyCom>>
     IN search' =
          IF MissingQuery(query) THEN Finished(ErrorValue(<<"Missing query">>))
          ELSE IF ~search.key
               THEN Finished(ErrorValue(<<"Tavily API key not configured">>))
               ELSE [Fetching(JStr(query), JInt(max_results), JStrings(include_domains))
                       EXCEPT !.max_results = max_results]
  /\ UNCHANGED <<handlerVars, signIn, xform, chatApp>>

\* the message of the error a rejected fetch or a rejected r.json() carries
FaultMessage(o) == <<ErrorMessage(o)>>

\* how the fetch settles and, for an ok answer, what its body holds
Answers ==
  {[NoData EXCEPT !.outcome = o] : o \in FetchOutcomes \ {"ok"}} \cup
  {[outcome |-> "ok", hasResults |-> p.hasResults, results |-> p.results] :
     p \in ProviderData}

\* doWebSearch from the settling of its fetch
ToolSearchSettle ==
  /\ search.pc = "fetch"
  /\ search.impl = "tool"
  /\ \E d \in Answers :
       search' =
         [Finished(
            IF d.outcome = "not_ok" THEN ErrorValue(<<"Tavily error: ", "500">>)
            ELSE IF d.outcome = "ok"
                 THEN ResultsValue("payload", search.sent.query.s,
                                   Strings(search.sent.include_domains),
                                   d, search.max_results)
                 ELSE Thrown(FaultMessage(d.outcome)))
          EXCEPT !.data = d]
  /\ UNCHANGED <<handlerVars, signIn, xform, chatApp>>

\* POST /api/search, first form, up to its fetch
RouteSearchStart ==
  /\ search.pc = "start"
  /\ search.impl = "route"
  /\ LET body == search.args
         queryRaw == IF body.query.t = "string" THEN body.query.s ELSE <<>>
         query == Trim(queryRaw)
         max_results == boundInt(IF body.max_results.t = "undefined"
                                 THEN JInt(DefaultMaxResults) ELSE body.max_results,
                                 MinMaxResults, MaxMaxResults)
         include_domains ==
           IF body.include_domains.t = "array" /\ Len(body.include_domains.a) > 0
           THEN FilterStrings(body.include_domains.a)
           ELSE <<EyCom>>
     IN search' =
          IF MissingQuery(query) THEN Finished(ErrorResponse(400, <<"Query is required">>))
          ELSE IF ~search.key
               THEN Finished(ErrorResponse(500, <<"Tavily API key not configured">>))
               ELSE [Fetching(JStr(query), JInt(max_results), JStrings(include_domains))
                       EXCEPT !.max_results = max_results]
  /\ UNCHANGED <<handlerVars, signIn, xform, chatApp>>

\* POST /api/search, first form, from the settling of its fetch
RouteSearchSettle ==
  /\ search.pc = "fetch"
  /\ search.impl = "route"
  /\ \E d \in Answers :
       search' =
         [Finished(
            IF d.outcome = "not_ok" THEN ErrorResponse(502, <<"Tavily error: ", "500">>)
            ELSE IF d.outcome = "ok"
                 THEN ResultsValue("response", search.sent.query.s,
                                   Strings(search.sent.include_domains),
                                   d, search.max_results)
                 ELSE ErrorResponse(500, FaultMessage(d.outcome)))
          EXCEPT !.data = d]
  /\ UNCHANGED <<handlerVars, signIn, xform, chatApp>>

\* !query
Falsy(v) ==
  \/ v.t = "undefined"
  \/ v.t = "string" /\ v.s = <<>>
  \/ v.t = "number" /\ (v.num = "nan" \/ (v.num = "finite" /\ v.n = 0))

\* POST /api/search, second form, up to its fetch
Route2SearchStart ==
  /\ search.pc = "start"
  /\ search.impl = "route2"
  /\ LET query == search.args.query
         max_results == IF search.args.max_results.t = "undefined"
                        THEN JInt(DefaultMaxResults) ELSE search.args.max_results
         include_domains == IF search.args.include_domains.t = "undefined"
                            THEN JArr(<<>>) ELSE search.args.include_domains
     IN search' =
          IF Falsy(query) THEN Finished(ErrorResponse(400, <<"Query is required">>))
          ELSE IF ~search.key
               THEN Finished(ErrorResponse(500, <<"Tavily API key not configured">>))
               ELSE Fetching(query, max_results, include_domains)
  /\ UNCHANGED <<handlerVars, signIn, xform, chatApp>>

\* POST /api/search, second form, from the settling of its fetch; this form
\* sets no abort timer
Route2SearchSettle ==
  /\ search.pc = "fetch"
  /\ search.impl = "route2"
  /\ \E d \in Answers :
       /\ d.outcome # "aborted"
       /\ search' =
            [Finished(
               IF d.outcome = "not_ok" THEN ErrorResponse(500, <<"Tavily search failed">>)
               ELSE IF d.outcome = "ok"
                    THEN [NoOut EXCEPT !.kind = "response", !.http = 200,
                                       !.results = [i \in DOMAIN d.results |->
                                          [title |-> d.results[i].title,
                                           url |-> d.results[i].url,
                                           content |-> d.results[i].content]]]
                    ELSE ErrorResponse(500, FaultMessage(d.outcome)))
             EXCEPT !.data = d]
  /\ UNCHANGED <<handlerVars, signIn, xform, chatApp>>

\* one search about to be made through one of the adapters
SearchInputs ==
  [pc : {"start"}, impl : SearchImpls, args : SearchArgs, key : BOOLEAN,
   max_results : {0}, sent : {NotSent}, data : {NoData}, out : {NoOut}]

InitSearch ==
  /\ HandlerOff
  /\ signIn = NoSignIn
  /\ xform = NoText
  /\ chatApp = NoApp
  /\ search \in SearchInputs

NextSearch ==
  \/ ToolSearchStart
  \/ ToolSearchSettle
  \/ RouteSearchStart
  \/ RouteSearchSettle
  \/ Route2SearchStart
  \/ Route2SearchSettle

SpecSearch == InitSearch /\ [][NextSearch]_vars

-----------------------------------------------------------------------------
(* The chat page, src/app/ChatApp.tsx, in its two forms *)

\* the form with the isLoaded flag (lines 16-277) and the form with voice input
\* (lines 291-595)
Forms == {"isLoaded", "voice"}

MaxMessages == 4

\* useState([]), useState(""), useState(null), useState(false), ...: a message
\* is held by its role, "error" being the assistant message of the catch block;
\* threadId "" stands for null
InitialState ==
  [messages |-> <<>>, input |-> <<>>, threadId |-> "", loading |-> FALSE,
   activeRun |-> FALSE, isLoaded |-> FALSE]

\* what the user may have typed into the input field
Inputs == {<<>>, <<" ">>, <<"h", "i">>}

\* localStorage.getItem("chatHistory"): null, or the JSON of a message list
NotStored == [some |-> FALSE, data |-> <<>>]
Stored(ms) == [some |-> TRUE, data |-> ms]

StoredHistories == {NotStored, Stored(<<>>), Stored(<<"user", "assistant">>)}

\* the axios.post("/api/chat", ...) of sendMessage; stale tells that the chat
\* was cleared after the request was sent
NoRequest == [pending |-> FALSE, threadId |-> "", stale |-> FALSE]

\* the effects of a form in the order of their useEffect calls, which is the
\* order React runs them in after the first render (the scroll effect touches
\* neither the state nor localStorage)
Effects(form) ==
  IF form = "isLoaded" THEN <<"load", "save">> ELSE <<"save", "load">>

\* state is the state as the set-state calls made so far leave it, snap the
\* state of the last render, which is what effects and handlers read; touched
\* says that setMessages has put a new array since the last render. read,
\* stored0 and cleared record history: the load effect has run since the
\* mount, what chatHistory held at the mount, clearChat has run and no turn
\* sent after it has returned.
Pages ==
  {[phase |-> "unmounted", form |-> f, state |-> InitialState,
    snap |-> InitialState, touched |-> FALSE, queue |-> <<>>,
    localStorage |-> [chatHistory |-> h, threadId |-> t],
    inflight |-> NoRequest, read |-> FALSE, stored0 |-> NotStored,
    cleared |-> FALSE] : f \in Forms, h \in StoredHistories, t \in ThreadIds}

InitChatApp ==
  /\ HandlerOff
  /\ signIn = NoSignIn
  /\ search = NoSearch
  /\ xform = NoText
  /\ chatApp \in Pages

\* nothing is left to render or to run: React handles an event or a settled
\* promise once the effects of the last render have run
Quiescent ==
  /\ chatApp.phase = "mounted"
  /\ chatApp.queue = <<>>
  /\ chatApp.state = chatApp.snap
  /\ ~chatApp.touched

\* the first render of a mount
Mount ==
  /\ chatApp.phase = "unmounted"
  /\ chatApp' = [chatApp EXCEPT !.phase = "mounted",
                                !.state = InitialState,
                                !.snap = InitialState,
                                !.touched = FALSE,
                                !.queue = Effects(chatApp.form),
                                !.read = FALSE,
                                !.stored0 = chatApp.localStorage.chatHistory]
  /\ UNCHANGED <<handlerVars, signIn, search, xform>>

\* useEffect(() => { if (isLoaded) return; ... getItem("chatHistory") ...
\*   setMessages(parsed) ... setThreadId(savedThread) ... setIsLoaded(true) }, [])
LoadEffect ==
  /\ chatApp.phase = "mounted"
  /\ chatApp.queue # <<>>
  /\ Head(chatApp.queue) = "load"
  /\ LET saved == chatApp.localStorage.chatHistory
         savedThread == chatApp.localStorage.threadId
         gated == chatApp.form = "isLoaded"
         skip == gated /\ chatApp.snap.isLoaded
         s1 == IF saved.some
               THEN [chatApp.state EXCEPT !.messages = saved.data]
               ELSE chatApp.state
         s2 == IF savedThread # "" THEN [s1 EXCEPT !.threadId = savedThread] ELSE s1
         s3 == IF gated THEN [s2 EXCEPT !.isLoaded = TRUE] ELSE s2
     IN chatApp' = [chatApp EXCEPT !.queue = Tail(@),
                                   !.state = IF skip THEN @ ELSE s3,
                                   !.touched = IF skip THEN @ ELSE @ \/ saved.some,
                                   !.read = TRUE]
  /\ UNCHANGED <<handlerVars, signIn, search, xform>>

\* useEffect(() => { if (!isLoaded) return; setItem("chatHistory", ...);
\*   if (threadId) setItem("threadId", threadId) }, [messages, threadId, isLoaded])
SaveEffect ==
  /\ chatApp.phase = "mounted"
  /\ chatApp.queue # <<>>
  /\ Head(chatApp.queue) = "save"
  /\ LET skip == chatApp.form = "isLoaded" /\ ~chatApp.snap.isLoaded
         saved == [chatHistory |-> Stored(chatApp.snap.messages),
                   threadId |-> IF chatApp.snap.threadId # ""
                                THEN chatApp.snap.threadId
                                ELSE chatApp.localStorage.threadId]
     IN chatApp' = [chatApp EXCEPT !.queue = Tail(@),
                                   !.localStorage = IF skip THEN @ ELSE saved]
  /\ UNCHANGED <<handlerVars, signIn, search, xform>>

\* a render after set-state calls; the save effect is run again when one of its
\* dependencies is not the same as in the last render
Render ==
  /\ chatApp.phase = "mounted"
  /\ chatApp.queue = <<>>
  /\ chatApp.state # chatApp.snap \/ chatApp.touched
  /\ LET changed == \/ chatApp.touched
                    \/ chatApp.state.threadId # chatApp.snap.threadId
                    \/ chatApp.state.isLoaded # chatApp.snap.isLoaded
     IN chatApp' = [chatApp EXCEPT !.snap = chatApp.state,
                                   !.touched = FALSE,
                                   !.queue = IF changed THEN <<"save">> ELSE <<>>]
  /\ UNCHANGED <<handlerVars, signIn, search, xform>>

\* onChange={(e) => setInput(e.target.value)}
SetInput ==
  /\ Quiescent
  /\ \E v \in Inputs \ {chatApp.state.input} :
       chatApp' = [chatApp EXCEPT !.state.input = v]
  /\ UNCHANGED <<handlerVars, signIn, search, xform>>

\* sendMessage without its test of activeRun
SendMessageUnguarded ==
  /\ Quiescent
  /\ Len(Trim(chatApp.snap.input)) > 0
  /\ Len(chatApp.state.messages) + 2 <= MaxMessages
  /\ chatApp' = [chatApp EXCEPT !.state.activeRun = TRUE,
                                !.state.loading = TRUE,
                                !.state.messages = Append(@, "user"),
                                !.state.input = <<>>,
                                !.touched = TRUE,
                                !.inflight = [pending |-> TRUE,
                                              threadId |-> chatApp.snap.threadId,
                                              stale |-> FALSE]]
  /\ UNCHANGED <<handlerVars, signIn, search, xform>>

\* sendMessage up to its await: if (activeRun || !input.trim()) return; ...
SendMessage ==
  /\ Quiescent
  /\ ~chatApp.snap.activeRun
  /\ Len(Trim(chatApp.snap.input)) > 0
  /\ Len(chatApp.state.messages) + 2 <= MaxMessages
  /\ chatApp' = [chatApp EXCEPT !.state.activeRun = TRUE,
                                !.state.loading = TRUE,
                                !.state.messages = Append(@, "user"),
                                !.state.input = <<>>,
                                !.touched = TRUE,
                                !.inflight = [pending |-> TRUE,
                                              threadId |-> chatApp.snap.threadId,
                                              stale |-> FALSE]]
  /\ UNCHANGED <<handlerVars, signIn, search, xform>>

\* sendMessage from its await on: the answer of /api/chat carries the thread
\* that was sent, or a new one when none was sent; an error answer or a thrown
\* request goes to the catch block
Respond ==
  /\ Quiescent
  /\ chatApp.inflight.pending
  /\ \E ok \in BOOLEAN :
       LET sent == chatApp.inflight.threadId
           replied == [chatApp.state EXCEPT
                         !.threadId = IF sent = "" THEN NewThreadId ELSE sent,
                         !.messages = Append(@, "assistant"),
                         !.loading = FALSE,
                         !.activeRun = FALSE]
           failed == [chatApp.state EXCEPT
                         !.messages = Append(@, "error"),
                         !.loading = FALSE,
                         !.activeRun = FALSE]
       IN chatApp' = [chatApp EXCEPT !.state = IF ok THEN replied ELSE failed,
                                     !.touched = TRUE,
                                     !.inflight = NoRequest,
                                     !.cleared = @ /\ chatApp.inflight.stale]
  /\ UNCHANGED <<handlerVars, signIn, search, xform>>

\* clearChat of the first form; the Clear Chat button of the second form, which
\* leaves chatHistory to the save effect
ClearChat ==
  /\ Quiescent
  /\ chatApp' = [chatApp EXCEPT
                   !.state.messages = <<>>,
                   !.state.threadId = "",
                   !.touched = TRUE,
                   !.localStorage =
                      [chatHistory |-> IF chatApp.form = "isLoaded"
                                       THEN NotStored
                                       ELSE @.chatHistory,
                       threadId |-> ""],
                   !.cleared = TRUE,
                   !.inflight.stale = chatApp.inflight.pending]
  /\ UNCHANGED <<handlerVars, signIn, search, xform>>

\* the page is left or reloaded; a request in flight has nothing to answer to
Unmount ==
  /\ Quiescent
  /\ chatApp' = [chatApp EXCEPT !.phase = "unmounted", !.inflight = NoRequest]
  /\ UNCHANGED <<handlerVars, signIn, search, xform>>

NextChatApp ==
  \/ Mount
  \/ LoadEffect
  \/ SaveEffect
  \/ Render
  \/ SetInput
  \/ SendMessage
  \/ Respond
  \/ ClearChat
  \/ Unmount

SpecChatApp == InitChatApp /\ [][NextChatApp]_vars

-----------------------------------------------------------------------------
(* Specifications *)

Init ==
  /\ variant \in Variants
  /\ req \in Requests(variant)
  /\ env \in Envs(variant)
  /\ session \in Sessions(variant)
  /\ pc = "start"
  /\ currentThreadId = ""
  /\ status = ""
  /\ retries = 0
  /\ toolCalls = <<>>
  /\ outputs = <<>>
  /\ submitted = NoSubmit
  /\ issued = {}
  /\ cause = "none"
  /\ resp = NoResp
  /\ signIn = NoSignIn
  /\ messagesRes = NoMessages
  /\ runRes = NoRun
  /\ search = NoSearch
  /\ xform = NoText
  /\ chatApp = NoApp

Next ==
  \/ SessionCheck
  \/ CredentialCheck
  \/ EnsureThread
  \/ PostMessage
  \/ CreateRun
  \/ Poll
  \/ SubmitMock
  \/ PollGated
  \/ ReturnSentinel
  \/ ReturnReply
  \/ ReturnSentinelGated
  \/ ReturnReplyGated
  \/ SdkValidate
  \/ SdkPostMessage
  \/ SdkCreateRun
  \/ SdkDispatch
  \/ SdkSettle
  \/ SdkSubmit
  \/ SdkRetrieve
  \/ SdkListMessages

Spec == Init /\ [][Next]_vars

\* every await of the handler settles: the awaited call answers or rejects
FairSpec == Spec /\ WF_vars(Next)

\* the signIn callback alone, on every pair of emails a provider may report
InitSignIn ==
  /\ variant = "axios"
  /\ req = [threadId |-> "", assistantId |-> "", message |-> None]
  /\ env = [OPENAI_API_KEY |-> FALSE, OPENAI_ASSISTANT_ID |-> FALSE,
            TAVILY_API_KEY |-> FALSE]
  /\ session = None
  /\ pc = "off"
  /\ currentThreadId = ""
  /\ status = ""
  /\ retries = 0
  /\ toolCalls = <<>>
  /\ outputs = <<>>
  /\ submitted = NoSubmit
  /\ issued = {}
  /\ cause = "none"
  /\ resp = NoResp
  /\ signIn \in [called : {FALSE}, user : Emails, profile : Emails, result : {FALSE}]
  /\ messagesRes = NoMessages
  /\ runRes = NoRun
  /\ search = NoSearch
  /\ xform = NoText
  /\ chatApp = NoApp

NextSignIn == SignIn

SpecSignIn == InitSignIn /\ [][NextSignIn]_vars

-----------------------------------------------------------------------------
(* Properties *)

TerminalNotCompleted == {"failed", "cancelled", "expired"}

\* the poll budget ran out with the run still queued or in progress
BudgetExhausted == status \in {"in_progress", "queued"} /\ retries >= RetryBudget

\* the handlers whose contract is { reply, threadId }: the axios handler (its typed
\* copy is the same code) and the gated handler
ReplyHandlers == {"axios", "gated"}

\* C1: every invocation of the chat handler returns a response: whatever statuses
\* the backend reports, the handler reaches its return after finitely many polls.
C1_HandlerReturns == <>(pc = "done")

\* the tool_outputs of the last submit call hold each call id of its batch
\* exactly once, and no other id
SubmittedIdsExact ==
  /\ \A i \in DOMAIN submitted.calls :
       Cardinality({k \in DOMAIN submitted.tool_outputs :
                      submitted.tool_outputs[k].tool_call_id = submitted.calls[i].id}) = 1
  /\ \A k \in DOMAIN submitted.tool_outputs :
       \E i \in DOMAIN submitted.calls :
         submitted.calls[i].id = submitted.tool_outputs[k].tool_call_id

\* C2: whenever a handler that services tool calls is done with a batch of one or
\* more calls, whatever their tools and however each tool ended, it has submitted
\* tool_outputs for that batch that hold each requested call id exactly once.
C2_EveryBatchAnswered ==
  [][(/\ pc \in {"submit", "tools"}
      /\ pc' \notin {"submit", "tools"}
      /\ Len(toolCalls) >= 1) =>
       (/\ submitted'.made
        /\ submitted'.calls = toolCalls
        /\ SubmittedIdsExact')]_vars

\* C3: a failure of the web_search tool never runs the handler's catch block: it
\* is never the cause of the handler's top-level error response.
C3_ToolFailureContained == ~(resp.kind = "error" /\ cause = "tool")

\* C4: when the run ends failed, cancelled or expired, or the poll budget runs out
\* on a run still queued or in progress, the handler answers 200 with
\* { reply, threadId } holding a sentinel reply, never with { error }.
C4_DegradedReply ==
  (/\ pc = "done"
   /\ variant \in ReplyHandlers
   /\ status \in TerminalNotCompleted \/ BudgetExhausted) =>
    /\ resp.kind = "reply"
    /\ resp.http = 200
    /\ resp.reply \in {NoResponseReceived, AssistantRunFailed}
    /\ resp.threadId = currentThreadId
    /\ resp.error = ""
    /\ cause = "none"

\* the axios handler has returned after its budget ran out on a run in progress
C4_Witness ==
  /\ pc = "done"
  /\ variant = "axios"
  /\ BudgetExhausted
  /\ resp.kind = "reply"

\* C5: the reply returned when the poll budget runs out differs from the reply
\* the same handler returns for a failed, a cancelled and an expired run.
C5_TimeoutDistinguishable ==
  (/\ pc = "done"
   /\ variant \in ReplyHandlers
   /\ BudgetExhausted
   /\ resp.kind = "reply") =>
    \A st \in TerminalNotCompleted :
      resp.reply # (IF variant = "gated" THEN SentinelReplyGated(st)
                    ELSE SentinelReply(st))

\* C6: once the handler has created a thread for a request without threadId, its
\* response carries the new thread's id, on failure paths too.
C6_NewThreadIdReturned ==
  (/\ pc = "done"
   /\ req.threadId = ""
   /\ "thread_create" \in issued
   /\ currentThreadId = NewThreadId) =>
    resp.threadId = NewThreadId

\* the request passes the handler's session and credential checks
ChecksPassed ==
  /\ variant \in ReplyHandlers => env.OPENAI_API_KEY /\ env.OPENAI_ASSISTANT_ID
  /\ variant = "gated" => Truthy(session) /\ IsAllowed(session.text)
  /\ variant = "sdk" => req.assistantId # ""

\* C7: a thread is created exactly when the request has no threadId; a response
\* that is not an error carries the created thread's id then, and the supplied
\* threadId otherwise.
C7_ThreadCreatedIffAbsent ==
  (pc = "done" /\ ChecksPassed) =>
    /\ ("thread_create" \in issued) <=> (req.threadId = "")
    /\ resp.kind # "error" =>
         resp.threadId = (IF req.threadId = "" THEN NewThreadId ELSE req.threadId)

\* C8: with the API key or the assistant id missing, a handler that reads them
\* makes no outbound call, never gets past its checks, and answers { error }.
C8_NoCallWithoutCredentials ==
  (/\ variant \in ReplyHandlers
   /\ ~env.OPENAI_API_KEY \/ ~env.OPENAI_ASSISTANT_ID) =>
    /\ issued = {}
    /\ pc \in {"start", "config", "done"}
    /\ pc = "done" => resp.kind = "error" /\ resp.reply = <<>>

\* the axios handler has answered a request made with the assistant id alone missing
C8_Witness ==
  /\ variant = "axios"
  /\ pc = "done"
  /\ env.OPENAI_API_KEY
  /\ ~env.OPENAI_ASSISTANT_ID
  /\ resp = ErrorResp(500, "Missing OpenAI credentials")

\* C9: no outbound call is made for a request without an authenticated session
\* or with a session email that, lowercased, is not in the allow-list.
C9_NoCallWithoutSession ==
  (~Truthy(session) \/ ToLowerCase(session.text) \notin ALLOWED_EMAILS) => issued = {}

\* C10: signIn returns true exactly when an email is available (the user's, else
\* the profile's) and, lowercased, is in ALLOWED_EMAILS.
C10_SignInIffAllowed ==
  signIn.called =>
    LET userHas == signIn.user.some /\ Len(signIn.user.text) > 0
        profileHas == signIn.profile.some /\ Len(signIn.profile.text) > 0
        email == IF userHas THEN signIn.user.text ELSE signIn.profile.text
    IN signIn.result <=>
         ((userHas \/ profileHas) /\ ToLowerCase(email) \in ALLOWED_EMAILS)

\* signIn has admitted a profile email that differs from the allow-list in case
C10_Witness ==
  /\ signIn.called
  /\ signIn.result
  /\ ~signIn.user.some
  /\ signIn.profile = Some(MixedCaseEmail)

\* the messages hold no assistant-authored message
NoAssistantMessage(msgs) == \A i \in DOMAIN msgs : msgs[i].role # "assistant"

\* the first assistant-authored message of the list, the one the handler selects
SelectedMessage(msgs) ==
  msgs[CHOOSE i \in DOMAIN msgs : /\ msgs[i].role = "assistant"
                                  /\ \A j \in 1..(i - 1) : msgs[j].role # "assistant"]

NoTextContent(m) == \A i \in DOMAIN m.content : ~m.content[i].hasText

\* C11: when the run completed and the fetched list holds no assistant message,
\* or the selected assistant message has no text content, the axios and gated
\* handlers answer 200 {reply: "No valid response.", threadId}, not an error
C11_NoValidResponseSentinel ==
  (/\ variant \in ReplyHandlers
   /\ pc = "done"
   /\ messagesRes.fetched
   /\ \/ NoAssistantMessage(messagesRes.data)
      \/ NoTextContent(SelectedMessage(messagesRes.data)))
  => resp = ReplyResp(NoValidResponse, currentThreadId)

\* a completed run whose selected assistant message holds only an image
C11_Witness ==
  /\ variant = "axios"
  /\ pc = "done"
  /\ status = "completed"
  /\ messagesRes = Fetched(<<AsstMsg(<<ImagePart>>), UserMsg>>)
  /\ resp.kind = "reply"
  /\ resp.reply = NoValidResponse

\* C12: a completed run whose selected assistant message is
\* "Result: 42 " followed by one citation marker is answered with exactly
\* "Result: 42", without the marker and without the separating space
C12_MarkerAndSpaceRemoved ==
  (/\ variant \in ReplyHandlers
   /\ pc = "done"
   /\ messagesRes = Fetched(<<AsstMsg(<<TextPart(CitedText)>>), UserMsg>>))
  => resp.reply = ResultText

\* C13: stripping citation markers from a text that was stripped already gives
\* the same text as stripping once, for every input
C13_StripIdempotent ==
  (xform.fn = "strip" /\ xform.applied = 2) => xform.twice = xform.once

\* a separator row: pipes, dashes, colons and blanks, with at least one dash
IsSeparatorRow(line) ==
  /\ StartsWithPipe(line)
  /\ EndsWithPipe(line)
  /\ \A i \in DOMAIN line : line[i] \in {"|", "-", ":", " "}
  /\ \E i \in DOMAIN line : line[i] = "-"

\* every block of table rows of the text has a separator row after its first row
HasSeparators(t) ==
  LET lines == Split(t, NL)
      IsRow(i) == StartsWithPipe(Trim(lines[i])) /\ EndsWithPipe(Trim(lines[i]))
  IN \A i \in DOMAIN lines :
       (IsRow(i) /\ (i = 1 \/ ~StartsWithPipe(Trim(lines[i - 1]))))
       => (i < Len(lines) /\ IsSeparatorRow(lines[i + 1]))

\* C14: fixTableFormatting adds a separator row only where none is present: a
\* text whose tables have their separator rows comes back unchanged, and
\* repairing a repaired text changes nothing
C14_FixTableIdempotent ==
  (xform.fn = "fixTable" /\ xform.applied = 2)
  => /\ xform.twice = xform.once
     /\ (HasSeparators(xform.input) => xform.once = xform.input)

\* C15: a call to a tool the handler does not implement is answered, in the
\* submit call of its batch, with {error: "Unknown tool: <name>"} under its call
\* id; the handler never leaves the batch without that answer
C15_UnknownToolAnswered ==
  [][(/\ pc \in {"submit", "tools"}
      /\ pc' \notin {"submit", "tools"}) =>
       \A i \in DOMAIN toolCalls :
         toolCalls[i].name # "web_search" =>
           /\ submitted'.made
           /\ \E k \in DOMAIN submitted'.tool_outputs :
                /\ submitted'.tool_outputs[k].tool_call_id = toolCalls[i].id
                /\ submitted'.tool_outputs[k].output =
                     ErrorPayload(<<"Unknown tool: ", toolCalls[i].name>>)]_vars

\* C16: in the SDK handler a fetch answered with a non-ok status resolves its
\* call with an error payload and does not end the handler; the batch is then
\* submitted with that payload and the handler goes back to its poll loop, unless
\* the submit call itself fails or the fetch of another call of the batch rejects
C16_NonOkContained ==
  [][(variant = "sdk" /\ pc = "tools") =>
       /\ \A i \in DOMAIN outputs :
            (outputs[i].fetch = "pending" /\ outputs'[i].fetch = "not_ok") =>
              /\ outputs'[i].state = "resolved"
              /\ outputs'[i].output.kind = "error"
              /\ pc' = "tools"
              /\ resp' = resp
       /\ ((\E i \in DOMAIN outputs : outputs[i].fetch = "not_ok") /\ pc' # "tools") =>
            \/ \E j \in DOMAIN outputs' : FetchThrows(outputs'[j].fetch)
            \/ /\ submitted'.made
               /\ \A i \in DOMAIN outputs :
                    outputs[i].fetch = "not_ok" =>
                      /\ submitted'.tool_outputs[i].tool_call_id = toolCalls[i].id
                      /\ submitted'.tool_outputs[i].output.kind = "error"
               /\ pc' = "loop" \/ cause' = "submit_tool_outputs"]_vars

\* the SDK handler has answered with the status of a run after submitting,
\* for a web_search call, the error payload of a non-ok answer
C16_Witness ==
  /\ variant = "sdk"
  /\ pc = "done"
  /\ resp.kind = "status"
  /\ submitted.made
  /\ \E k \in DOMAIN submitted.tool_outputs :
       submitted.tool_outputs[k].output = ErrorPayload(<<"Tavily error: ", "500">>)

ClampingSearch == search.pc # "off" /\ search.impl \in {"tool", "route"}

IsBelow(v, i) == v.t = "number" /\ (v.num = "-inf" \/ (v.num = "finite" /\ v.n < 2 * i))
IsAbove(v, i) == v.t = "number" /\ (v.num = "inf" \/ (v.num = "finite" /\ v.n > 2 * i))
IsFinite(v) == v.t = "number" /\ v.num = "finite"

\* the bound sent is a whole number from 1 to 10 that clamping leaves as it is,
\* and no more results than the bound are returned
BoundInRange ==
  (ClampingSearch /\ search.sent.made) =>
    /\ \E i \in MinMaxResults..MaxMaxResults : search.sent.max_results = JInt(i)
    /\ search.max_results = MathTrunc(search.sent.max_results.n)
    /\ toBoundedInt(search.sent.max_results, DefaultMaxResults, MinMaxResults,
                    MaxMaxResults) = search.max_results
    /\ boundInt(search.sent.max_results, MinMaxResults, MaxMaxResults)
         = search.max_results
    /\ Len(search.out.results) <= search.max_results

\* C17 as stated: the bound sent to the provider and used to truncate is a whole
\* number from 1 to 10; every supplied number below 1 becomes 1 and every
\* supplied number above 10 becomes 10; clamping the bound again changes nothing
C17_MaxResultsClamped ==
  /\ BoundInRange
  /\ (ClampingSearch /\ search.sent.made) =>
       /\ IsBelow(search.args.max_results, MinMaxResults)
            => search.max_results = MinMaxResults
       /\ IsAbove(search.args.max_results, MaxMaxResults)
            => search.max_results = MaxMaxResults

\* C17 amended: as above for every finite supplied number; Infinity and
\* -Infinity are not clamped to the nearer limit but replaced (by the default 3
\* in toBoundedInt, by the lower limit 1 in boundInt)
C17_FiniteMaxResultsClamped ==
  /\ BoundInRange
  /\ (ClampingSearch /\ search.sent.made /\ IsFinite(search.args.max_results)) =>
       /\ IsBelow(search.args.max_results, MinMaxResults)
            => search.max_results = MinMaxResults
       /\ IsAbove(search.args.max_results, MaxMaxResults)
            => search.max_results = MaxMaxResults
  /\ (ClampingSearch /\ search.sent.made /\ search.args.max_results.t = "number"
        /\ ~IsFinite(search.args.max_results)) =>
       search.max_results = IF search.impl = "tool" THEN DefaultMaxResults
                            ELSE MinMaxResults

\* doWebSearch asked for 999 results has sent 10 and returned 10 of 12
C17_Witness ==
  /\ search.pc = "done"
  /\ search.impl = "tool"
  /\ search.args.max_results = JInt(999)
  /\ search.sent.max_results = JInt(MaxMaxResults)
  /\ Len(search.data.results) = ManyResults
  /\ Len(search.out.results) = MaxMaxResults

SearchAnswered ==
  /\ search.pc = "done"
  /\ search.impl \in {"tool", "route"}
  /\ search.data.outcome = "ok"

\* C18: the results doWebSearch and the first form of the search route return
\* are the first min(n, max_results) entries of the provider's n results, in the
\* provider's order
C18_FirstResultsInOrder ==
  SearchAnswered =>
    /\ Len(search.out.results) = MathMin(Len(search.data.results), search.max_results)
    /\ \A i \in DOMAIN search.out.results :
         search.out.results[i] = Formatted(search.data.results[i])

\* three results came back for a search bounded to fewer, and were cut
C18_Witness ==
  /\ SearchAnswered
  /\ Len(search.data.results) = MaxProviderResults
  /\ Len(search.out.results) < Len(search.data.results)
  /\ Len(search.out.results) >= MinMaxResults

QueryAbsent(v) == v.t # "string" \/ Trim(v.s) = <<>>

\* C19: a search through doWebSearch or the first form of the search route whose
\* query is missing, not a string or blank ends with a returned error value,
\* nothing thrown, and sends nothing to the provider
C19_MissingQueryReturned ==
  (search.pc # "off" /\ search.impl \in {"tool", "route"}
     /\ QueryAbsent(search.args.query)) =>
    /\ search.pc # "fetch"
    /\ ~search.sent.made
    /\ search.pc = "done" => /\ search.out.kind \in {"payload", "response"}
                             /\ search.out.error # <<>>

\* doWebSearch has returned its error value for a blank query, the key being set
C19_Witness ==
  /\ search.pc = "done"
  /\ search.impl = "tool"
  /\ search.key
  /\ search.args.query = JStr(<<" ">>)
  /\ search.out = ErrorValue(<<"Missing query">>)

SuppliedNone(v) == v.t = "undefined" \/ (v.t = "array" /\ v.a = <<>>)

\* C20: the domain list sent to the provider is never empty, and it is
\* ["ey.com"] whenever the supplied include_domains is absent or empty
C20_DomainsNeverEmpty ==
  (search.pc # "off" /\ search.sent.made) =>
    /\ search.sent.include_domains.t = "array"
    /\ search.sent.include_domains.a # <<>>
    /\ SuppliedNone(search.args.include_domains)
         => search.sent.include_domains = JStrings(<<EyCom>>)

\* a step in which the handler asks the backend to append the user's message
MessageCreateStep ==
  \/ PostMessage
  \/ SdkPostMessage /\ "message_create" \in issued'

\* a step in which the handler asks the backend to create a run
RunCreateStep == CreateRun \/ SdkCreateRun

\* C21: a handler that goes on to create a run has asked for the user's message
\* to be appended before, and no handler asks for it a second time
C21_ExactlyOneUserMessage ==
  [][/\ RunCreateStep => "message_create" \in issued
     /\ MessageCreateStep => "message_create" \notin issued]_vars

\* C25: a handler asks the backend to create a run only when it has not asked
\* before: at most one run-create call per invocation, on every path
C25_AtMostOneRunCreate ==
  [][RunCreateStep => "run_create" \notin issued]_vars

\* the axios handler has answered after servicing a batch of tool calls
C25_Witness ==
  /\ variant = "axios"
  /\ pc = "done"
  /\ "run_create" \in issued
  /\ "submit_tool_outputs" \in issued
  /\ resp.kind = "reply"

\* a step in which the handler fetches the status of its run
PollStep == Poll \/ PollGated \/ SdkRetrieve

\* a step in which the handler submits tool outputs
SubmitStep == SubmitMock \/ SdkSubmit

LoopCalls == {"run_retrieve", "submit_tool_outputs"}

\* C24: the calls of one invocation are ordered. The message append is made
\* before any run-create, poll or submit call; the run is created after the
\* append has succeeded (where the handler makes one) and before any poll or
\* submit; a poll is made only after the run was created, no call having failed,
\* and never while a requires_action pause is waiting for its outputs
C24_CallsOrdered ==
  [][/\ MessageCreateStep => issued \cap ({"run_create"} \cup LoopCalls) = {}
     /\ RunCreateStep =>
          /\ issued \cap LoopCalls = {}
          /\ resp.kind = "none"
          /\ variant # "sdk" => "message_create" \in issued
          /\ (variant = "sdk" /\ req.message.some /\ Len(Trim(req.message.text)) > 0)
               => "message_create" \in issued
     /\ PollStep =>
          /\ "run_create" \in issued
          /\ resp.kind = "none"
          /\ pc = "loop"
          /\ status # "requires_action"
          /\ outputs = <<>>]_vars

\* the axios handler has polled again after submitting the outputs of a batch
C24_Witness ==
  /\ variant = "axios"
  /\ pc = "loop"
  /\ submitted.made
  /\ status = "completed"

\* a step of the body of the poll loop
LoopBodyStep == PollStep \/ SubmitStep \/ SdkDispatch \/ SdkSettle

\* C26: once the status held by the handler is terminal, the handler makes no
\* status fetch, dispatches no tool and submits no tool outputs
C26_NoCallAfterTerminal ==
  [][(status \in Terminal) => ~LoopBodyStep]_vars

\* a handler has answered for a run that a status fetch reported as expired
C26_Witness ==
  /\ pc = "done"
  /\ status = "expired"
  /\ "run_retrieve" \in issued
  /\ resp.kind \in {"reply", "status"}

\* C27: the messages of the thread are fetched only for a run that completed,
\* and a response given for any other outcome holds no message of the thread
C27_MessagesOnlyWhenCompleted ==
  /\ "message_list" \in issued => status = "completed"
  /\ (pc = "done" /\ status # "completed") =>
       /\ ~messagesRes.fetched
       /\ resp.messages = <<>>

\* C28: for each requires_action pause the SDK handler makes exactly one submit
\* call, with one output per call of the batch, and makes it only when every
\* call of the batch has resolved; it makes no status fetch during the pause
C28_OneSubmissionPerPause ==
  [][variant = "sdk" =>
       /\ SdkSubmit =>
            /\ ~submitted.made
            /\ \A i \in DOMAIN outputs : outputs[i].state = "resolved"
            /\ submitted'.calls = toolCalls
            /\ Len(submitted'.tool_outputs) = Len(toolCalls)
       /\ (pc = "tools" /\ pc' # "tools") => SdkSubmit
       /\ (status = "requires_action" /\ pc \in {"loop", "tools"}) => ~PollStep]_vars

BackendCalls ==
  {"thread_create", "message_create", "run_create", "run_retrieve",
   "submit_tool_outputs", "message_list"}

\* C30: when a call to the assistant backend has failed, the handler has
\* answered with { error } carrying the message of the failure, and does
\* nothing more: no call is retried and the turn is not continued
C30_FailureEndsTurn ==
  /\ [](cause \in BackendCalls =>
          /\ pc = "done"
          /\ resp.kind = "error"
          /\ resp.error \in {ErrorMessage(f) : f \in Failures})
  /\ [][(cause \in BackendCalls) => UNCHANGED vars]_vars

\* the axios handler has answered with the backend's error detail after a
\* status fetch failed
C30_Witness ==
  /\ variant = "axios"
  /\ pc = "done"
  /\ cause = "run_retrieve"
  /\ resp = ErrorResp(500, ErrorMessage("http_detail"))

\* C29: the status a handler enters its poll loop with is the status that the
\* backend reported in its answer to run-create
C29_InitialStatusReported ==
  [][(RunCreateStep /\ pc' = "loop") => status' = runRes'.status]_vars

\* C22: in a mounted page no step writes the chatHistory key before the load
\* effect has read it, and the load effect puts into messages the list that the
\* key held when the page was mounted
C22_NoWriteBeforeRead ==
  /\ [][(/\ chatApp.phase = "mounted"
         /\ chatApp'.localStorage.chatHistory # chatApp.localStorage.chatHistory)
        => chatApp.read]_vars
  /\ [][(LoadEffect /\ chatApp.stored0.some)
        => chatApp'.state.messages = chatApp.stored0.data]_vars

\* C23: in the first form, from clearChat until a turn sent after it returns,
\* the threadId of the page and the threadId key of localStorage are absent
C23_ClearedThreadStaysAbsent ==
  (/\ chatApp.phase # "off"
   /\ chatApp.form = "isLoaded"
   /\ chatApp.cleared) =>
    /\ chatApp.state.threadId = ""
    /\ chatApp.localStorage.threadId = ""

\* C31: when a reply handler has left its poll loop without error and the last
\* status it holds is requires_action, its poll budget is used up; and a status
\* fetch that reports requires_action leads to the submit call
C31_PauseAlwaysServiced ==
  /\ []((/\ variant \in ReplyHandlers
         /\ pc = "done"
         /\ cause = "none"
         /\ status = "requires_action") => retries >= RetryBudget)
  /\ [][((Poll \/ PollGated) /\ cause' = "none" /\ status' = "requires_action")
        => pc' = "submit"]_vars

\* C32: the reply of the axios handler for a completed run is never taken from
\* an assistant message that an earlier run wrote: when the message the handler
\* selects is not one of this turn's run, the reply is the "No valid response."
\* sentinel
C32_ReplyFromThisRun ==
  (/\ variant = "axios"
   /\ pc = "done"
   /\ resp.kind = "reply"
   /\ status = "completed"
   /\ messagesRes.fetched
   /\ ~NoAssistantMessage(messagesRes.data)
   /\ SelectedMessage(messagesRes.data).run_id # ThisRunId) =>
    resp.reply = NoValidResponse

\* C33: sendMessage sends its request only when no request of the page is in
\* flight and the input is not blank; when a request has settled, activeRun and
\* loading are false again, whether it succeeded or failed, so that a mounted
\* page with no request in flight never has a flag left set
C33_OneRequestInFlight ==
  /\ [][SendMessage => ~chatApp.inflight.pending]_vars
  /\ [][(chatApp.phase # "off" /\ ~chatApp.inflight.pending /\ chatApp'.inflight.pending)
        => Len(Trim(chatApp.snap.input)) > 0]_vars
  /\ [][Respond => (~chatApp'.state.activeRun /\ ~chatApp'.state.loading)]_vars
  /\ []((chatApp.phase = "mounted" /\ ~chatApp.inflight.pending)
        => (~chatApp.state.activeRun /\ ~chatApp.state.loading))

\* a request is in flight after an earlier request of the page has failed
C33_Witness ==
  /\ chatApp.phase = "mounted"
  /\ chatApp.inflight.pending
  /\ chatApp.state.activeRun
  /\ chatApp.state.messages = <<"user", "error", "user">>

\* a transcript in which every assistant entry, reply or error, stands directly
\* after the user entry it answers
RECURSIVE Paired(_)
Paired(ms) ==
  IF ms = <<>> THEN TRUE
  ELSE IF Head(ms) # "user" THEN FALSE
  ELSE IF Len(ms) = 1 THEN TRUE
  ELSE IF ms[2] = "user" THEN Paired(Tail(ms))
  ELSE Paired(Tail(Tail(ms)))

C35_ResultsCountBounded ==
  SearchAnswered =>
    /\ search.out.count =
         (IF search.data.hasResults THEN Len(search.data.results) ELSE 0)
    /\ Len(search.out.results) = MathMin(search.out.count, search.max_results)
    /\ Len(search.out.results) <= search.max_results
    /\ Len(search.out.results) <= search.out.count

\* the provider returned more results than the upper limit and the payload
\* holds the upper limit of them
C35_Witness ==
  /\ SearchAnswered
  /\ search.out.count = ManyResults
  /\ search.max_results = MaxMaxResults
  /\ Len(search.out.results) = MaxMaxResults

\* a table row: a line that, trimmed, starts and ends with a pipe
IsTableRow(line) == StartsWithPipe(Trim(line)) /\ EndsWithPipe(Trim(line))

\* the columns of a table row: the cells between its pipes, empty ones included
Columns(line) == Cardinality({k \in DOMAIN line : line[k] = "|"}) - 1

\* line i opens a contiguous block of table rows
BlockStart(lines, i) ==
  IsTableRow(lines[i]) /\ (i = 1 \/ ~IsTableRow(lines[i - 1]))

\* C36: fixTableFormatting adds one line per contiguous block of table rows of
\* its input, and in its output the first row of every block is followed by a
\* separator row with as many columns as that row, empty cells included
C36_SeparatorMatchesHeader ==
  (xform.fn = "fixTable" /\ xform.applied >= 1) =>
    LET in == Split(xform.input, NL)
        out == Split(xform.once, NL)
    IN /\ Len(out) = Len(in) + Cardinality({i \in DOMAIN in : BlockStart(in, i)})
       /\ \A k \in DOMAIN out :
            BlockStart(out, k) =>
              /\ k < Len(out)
              /\ out[k + 1] = Separator(Columns(out[k]))

\* C37: a text none of whose lines is a table row comes back from
\* fixTableFormatting character for character
C37_NonTableTextUnchanged ==
  (/\ xform.fn = "fixTable"
   /\ xform.applied >= 1
   /\ \A i \in DOMAIN Split(xform.input, NL) :
        ~IsTableRow(Split(xform.input, NL)[i])) =>
    xform.once = xform.input

====
